---- MODULE Spec2Model ----
(***************************************************************************)
(* PDF question-answering service (main.py, database.py): document CRUD,   *)
(* the rate-limited POST /question-answer endpoint, the /ws/question       *)
(* WebSocket loop, and the text helpers get_answer, split_into_chunks and  *)
(* find_relevant_chunk.                                                    *)
(*                                                                         *)
(* A Python str is a sequence of one-character strings.  An optional value *)
(* (None or a value v) is the empty sequence or the one-element <<v>>.     *)
(***************************************************************************)
EXTENDS Integers, Sequences, FiniteSets, TLC

VARIABLES
    documents,               \* the "documents" table: id -> [filename, content]
    clock,                   \* time(), in seconds
    limiter,                 \* Redis keys of the HTTP RateLimiter, per client
    websocket_rate_limiter,  \* main.py's dict: client -> last accepted time
    conns,                   \* WebSocket connections: state, client, document_content
    oplog,                   \* document requests served so far, with their responses
    qalog,                   \* per client, the /question-answer calls served so far
    wslog,                   \* per connection, the messages handled so far
    call,                    \* the helper last applied, with its arguments
    result                   \* what that helper returned

vars == <<documents, clock, limiter, websocket_rate_limiter, conns,
          oplog, qalog, wslog, call, result>>

----------------------------------------------------------------------------
(* Bounds of the model *)

MaxTextLen == 5        \* longest text given to split_into_chunks
MaxChunkSize == 3      \* largest chunk_size given to split_into_chunks
MaxChunks == 2         \* most chunks given to find_relevant_chunk
MaxChunkLen == 2       \* longest chunk / question given to find_relevant_chunk

None == <<>>
Some(v) == <<v>>

RECURSIVE StringsUpTo(_, _)
StringsUpTo(chars, n) ==
    IF n = 0 THEN {<<>>}
    ELSE LET shorter == StringsUpTo(chars, n - 1)
         IN  shorter \cup {<<c>> \o s : c \in chars, s \in {t \in shorter : Len(t) = n - 1}}

RECURSIVE ListsUpTo(_, _)
ListsUpTo(items, n) ==
    IF n = 0 THEN {<<>>}
    ELSE LET shorter == ListsUpTo(items, n - 1)
         IN  shorter \cup {<<x>> \o s : x \in items, s \in {t \in shorter : Len(t) = n - 1}}

----------------------------------------------------------------------------
(* str.split(" ") and " ".join(...) *)

RECURSIVE SplitOnSpace(_)
SplitOnSpace(text) ==
    IF text = <<>> THEN << <<>> >>
    ELSE LET rest == SplitOnSpace(Tail(text))
         IN  IF Head(text) = " "
             THEN << <<>> >> \o rest
             ELSE << <<Head(text)>> \o Head(rest) >> \o Tail(rest)

RECURSIVE JoinWithSpace(_)
JoinWithSpace(words) ==
    IF words = <<>> THEN <<>>
    ELSE IF Len(words) = 1 THEN words[1]
    ELSE words[1] \o <<" ">> \o JoinWithSpace(Tail(words))

RECURSIVE SumLen(_)
SumLen(words) ==
    IF words = <<>> THEN 0 ELSE Len(Head(words)) + SumLen(Tail(words))

----------------------------------------------------------------------------
(* split_into_chunks *)

\* A faulty iteration: the word that overflows the chunk is lost.
ChunkStepDropsWord(st, word, chunk_size) ==
    IF SumLen(st.current_chunk) + Len(word) > chunk_size
    THEN [chunks |-> Append(st.chunks, JoinWithSpace(st.current_chunk)),
          current_chunk |-> <<>>]
    ELSE [chunks |-> st.chunks,
          current_chunk |-> Append(st.current_chunk, word)]

\* One iteration of the for loop: st = [chunks, current_chunk].
ChunkStep(st, word, chunk_size) ==
    IF SumLen(st.current_chunk) + Len(word) > chunk_size
    THEN [chunks |-> Append(st.chunks, JoinWithSpace(st.current_chunk)),
          current_chunk |-> <<word>>]
    ELSE [chunks |-> st.chunks,
          current_chunk |-> Append(st.current_chunk, word)]

RECURSIVE ChunkLoop(_, _, _)
ChunkLoop(st, words, chunk_size) ==
    IF words = <<>> THEN st
    ELSE ChunkLoop(ChunkStep(st, Head(words), chunk_size), Tail(words), chunk_size)

split_into_chunks(text, chunk_size) ==
    LET words == SplitOnSpace(text)
        end == ChunkLoop([chunks |-> <<>>, current_chunk |-> <<>>], words, chunk_size)
    IN  IF end.current_chunk # <<>>
        THEN Append(end.chunks, JoinWithSpace(end.current_chunk))
        ELSE end.chunks

DefaultChunkSize == 1000

----------------------------------------------------------------------------
(* difflib.SequenceMatcher(None, a, b).ratio(), as find_relevant_chunk uses *)
(* it (no junk; strings far shorter than the 200 of the autojunk rule).     *)
(* Ranges are half open, [lo, hi), over 1-based positions.                  *)

RECURSIVE RunLen(_, _, _, _, _, _)
RunLen(a, b, i, j, ahi, bhi) ==
    IF i < ahi /\ j < bhi /\ a[i] = b[j]
    THEN 1 + RunLen(a, b, i + 1, j + 1, ahi, bhi)
    ELSE 0

\* The longest matching block of a[alo, ahi) and b[blo, bhi): of the longest,
\* the one starting earliest in a, and of those the one earliest in b.
find_longest_match(a, b, alo, ahi, blo, bhi) ==
    LET cand == {<<i, j, RunLen(a, b, i, j, ahi, bhi)>> :
                     i \in alo..(ahi - 1), j \in blo..(bhi - 1)}
        hits == {c \in cand : c[3] > 0}
    IN  IF hits = {} THEN <<alo, blo, 0>>
        ELSE CHOOSE c \in hits :
                \A d \in hits :
                    \/ c[3] > d[3]
                    \/ c[3] = d[3] /\ c[1] < d[1]
                    \/ c[3] = d[3] /\ c[1] = d[1] /\ c[2] <= d[2]

\* The total size of the blocks get_matching_blocks collects.
RECURSIVE MatchedSize(_, _, _, _, _, _)
MatchedSize(a, b, alo, ahi, blo, bhi) ==
    LET m == find_longest_match(a, b, alo, ahi, blo, bhi)
        i == m[1]
        j == m[2]
        k == m[3]
    IN  IF k = 0 THEN 0
        ELSE k
             + (IF alo < i /\ blo < j THEN MatchedSize(a, b, alo, i, blo, j) ELSE 0)
             + (IF i + k < ahi /\ j + k < bhi
                THEN MatchedSize(a, b, i + k, ahi, j + k, bhi) ELSE 0)

\* ratio() is the float 2.0 * matches / length, 1.0 when both are empty; it is
\* kept as the fraction <<numerator, denominator>>, which the float determines.
ratio(a, b) ==
    LET length == Len(a) + Len(b)
    IN  IF length = 0 THEN <<1, 1>>
        ELSE <<2 * MatchedSize(a, b, 1, Len(a) + 1, 1, Len(b) + 1), length>>

RatioLess(r, s) == r[1] * s[2] < s[1] * r[2]
RatioEq(r, s) == r[1] * s[2] = s[1] * r[2]

----------------------------------------------------------------------------
(* find_relevant_chunk *)

\* A faulty sort: x goes in front of the entries with an equal score.
RECURSIVE InsertDescendingUnstable(_, _)
InsertDescendingUnstable(sorted, x) ==
    IF sorted = <<>> THEN <<x>>
    ELSE IF ~RatioLess(x[2], Head(sorted)[2])
         THEN <<x>> \o sorted
         ELSE <<Head(sorted)>> \o InsertDescendingUnstable(Tail(sorted), x)

\* list.sort(key=..., reverse=True): descending by score, equal scores keep
\* their original order.  x goes behind every entry whose score is not less.
RECURSIVE InsertDescending(_, _)
InsertDescending(sorted, x) ==
    IF sorted = <<>> THEN <<x>>
    ELSE IF RatioLess(Head(sorted)[2], x[2])
         THEN <<x>> \o sorted
         ELSE <<Head(sorted)>> \o InsertDescending(Tail(sorted), x)

RECURSIVE SortDescending(_, _)
SortDescending(sorted, todo) ==
    IF todo = <<>> THEN sorted
    ELSE SortDescending(InsertDescending(sorted, Head(todo)), Tail(todo))

find_relevant_chunk(question, chunks) ==
    LET scores == [i \in 1..Len(chunks) |-> <<chunks[i], ratio(question, chunks[i])>>]
        sorted == SortDescending(<<>>, scores)
    IN  IF sorted # <<>> THEN sorted[1][1] ELSE <<>>

----------------------------------------------------------------------------
(* get_answer *)

NoAnswerFound ==
    <<"N","o"," ","a","n","s","w","e","r"," ","f","o","u","n","d",".">>
ErrorPrefix ==
    <<"E","r","r","o","r",":"," ">>
CommaSpace ==
    <<","," ">>
AnErrorOccurred ==
    <<"A","n"," ","e","r","r","o","r"," ","o","c","c","u","r","r","e","d",
      ":"," ">>

\* str(e) of the exceptions the body of get_answer can meet on its own.
NoneHasNoLen ==
    <<"o","b","j","e","c","t"," ","o","f"," ","t","y","p","e"," ","'","N",
      "o","n","e","T","y","p","e","'"," ","h","a","s"," ","n","o"," ","l",
      "e","n","(",")">>
JsonDecodeError ==
    <<"E","x","p","e","c","t","i","n","g"," ","v","a","l","u","e",":"," ",
      "l","i","n","e"," ","1"," ","c","o","l","u","m","n"," ","1"," ","(",
      "c","h","a","r"," ","0",")">>
ListHasNoGet ==
    <<"'","l","i","s","t","'"," ","o","b","j","e","c","t"," ","h","a","s",
      " ","n","o"," ","a","t","t","r","i","b","u","t","e"," ","'","g","e",
      "t","'">>
NoneHasNoReplace ==
    <<"'","N","o","n","e","T","y","p","e","'"," ","o","b","j","e","c","t",
      " ","h","a","s"," ","n","o"," ","a","t","t","r","i","b","u","t","e",
      " ","'","r","e","p","l","a","c","e","'">>

Return(v) == [raised |-> FALSE, value |-> v]
Raise(msg) == [raised |-> TRUE, value |-> msg]

\* answer.replace("\n", " ")
ReplaceNewlines(s) == [i \in 1..Len(s) |-> IF s[i] = "\n" THEN " " ELSE s[i]]

Digit(d) == <<"0", "1", "2", "3", "4", "5", "6", "7", "8", "9">>[d + 1]

\* The decimal text an f-string gives a non-negative int.
RECURSIVE IntToStr(_)
IntToStr(n) ==
    IF n < 10 THEN <<Digit(n)>> ELSE Append(IntToStr(n \div 10), Digit(n % 10))

\* The behaviours of the inference API: requests.post raises, or answers with
\* a status, a raw body text and a body that response.json() decodes (or not).
ExceptionOutcome(msg) == [kind |-> "exception", msg |-> msg]
ResponseOutcome(status, text, json) ==
    [kind |-> "response", status_code |-> status, text |-> text, json |-> json]
JsonAnswer(s) == [shape |-> "dict", has_answer |-> TRUE, answer |-> Some(s)]
JsonNullAnswer == [shape |-> "dict", has_answer |-> TRUE, answer |-> None]
JsonNoAnswer == [shape |-> "dict", has_answer |-> FALSE, answer |-> None]
JsonList == [shape |-> "list", has_answer |-> FALSE, answer |-> None]
JsonInvalid == [shape |-> "invalid", has_answer |-> FALSE, answer |-> None]

\* response.json().get("answer", "No answer found.") and answer.replace(...)
AnswerOf(json) ==
    IF json.shape = "invalid" THEN Raise(JsonDecodeError)
    ELSE IF json.shape = "list" THEN Raise(ListHasNoGet)
    ELSE IF ~json.has_answer THEN Return(ReplaceNewlines(NoAnswerFound))
    ELSE IF json.answer = None THEN Raise(NoneHasNoReplace)
    ELSE Return(ReplaceNewlines(json.answer[1]))

\* The body of the try block.  question is optional: the WebSocket loop passes
\* None when a message has no "question", and SequenceMatcher then fails.
get_answer_try(question, context, outcome) ==
    LET context_chunks == split_into_chunks(context, DefaultChunkSize)
    IN  IF question = None /\ context_chunks # <<>> THEN Raise(NoneHasNoLen)
        ELSE IF outcome.kind = "exception" THEN Raise(outcome.msg)
        ELSE IF outcome.status_code = 200 THEN AnswerOf(outcome.json)
        ELSE Return(ErrorPrefix \o IntToStr(outcome.status_code)
                    \o CommaSpace \o outcome.text)

\* A faulty get_answer: no except clause.
get_answer_unguarded(question, context, outcome) ==
    get_answer_try(question, context, outcome)

get_answer(question, context, outcome) ==
    LET r == get_answer_try(question, context, outcome)
    IN  IF r.raised THEN Return(AnErrorOccurred \o r.value) ELSE r

----------------------------------------------------------------------------
(* Inputs and bounds of the service *)

MaxDocId == 1          \* uploads stop once the next id would exceed this
MaxOps == 4            \* document requests recorded in oplog
MaxCalls == 6          \* /question-answer calls remembered at a time
MaxMsgs == 2           \* WebSocket messages remembered at a time
StartClock == 1000     \* time() when the process starts (any value >= 60)
TickStep == 30         \* seconds that pass in one Tick
MaxElapsed == 60       \* seconds of running time explored

Clients == {"10.0.0.1", "10.0.0.2"}
Conns == {1, 2}
DocIds == 1..MaxDocId

\* Uploaded files: the name, whether PdfReader can read it, its pages' text.
Files ==
    { [filename |-> "a.pdf", kind |-> "ok", pages |-> <<>>],
      [filename |-> "a.pdf", kind |-> "ok", pages |-> << <<"a">> >>],
      [filename |-> "b.pdf", kind |-> "ok", pages |-> << <<"b">> >>],
      [filename |-> "b.pdf", kind |-> "encrypted", pages |-> <<>>],
      [filename |-> "a.pdf", kind |-> "corrupt", pages |-> <<>>] }

Questions == {<<>>, <<"a">>}

\* What the inference API does for a request made by the service.
ServiceOutcomes ==
    { ResponseOutcome(200, <<"{", "}">>, JsonAnswer(<<"a", "\n", "b">>)),
      ExceptionOutcome(<<"t", "i", "m", "e", "o", "u", "t">>) }

----------------------------------------------------------------------------
(* The documents table (database.py) *)

Max(S) == CHOOSE x \in S : \A y \in S : y <= x

\* The id SQLite gives a new row of a table whose key is a plain
\* INTEGER PRIMARY KEY: one more than the largest id in use, 1 when empty.
NextId(table) == IF DOMAIN table = {} THEN 1 ELSE Max(DOMAIN table) + 1

\* db.add(document); db.commit()
Insert(table, row) ==
    LET id == NextId(table)
    IN  [i \in DOMAIN table \cup {id} |-> IF i = id THEN row ELSE table[i]]

\* db.delete(document); db.commit()
Remove(table, id) == [i \in DOMAIN table \ {id} |-> table[i]]

\* db.query(Document).filter(Document.id == id).first()
Lookup(table, id) == IF id \in DOMAIN table THEN Some(table[id]) ELSE None

----------------------------------------------------------------------------
(* Document endpoints *)

\* text_content += page.extract_text() + "\n", page after page
RECURSIVE ExtractText(_)
ExtractText(pages) ==
    IF pages = <<>> THEN <<>>
    ELSE Head(pages) \o <<"\n">> \o ExtractText(Tail(pages))

Response(status, id, filename, detail, listing) ==
    [status |-> status, id |-> id, filename |-> filename, detail |-> detail,
     listing |-> listing]

\* The new table and the response of POST /documents/upload.
upload_document(table, file) ==
    IF file.kind = "ok"
    THEN [table |-> Insert(table, [filename |-> file.filename,
                                   content |-> ExtractText(file.pages)]),
          response |-> Response(200, NextId(table), file.filename, "", {})]
    ELSE IF file.kind = "encrypted"
    THEN [table |-> table,
          response |-> Response(500, 0, "",
              "PyCryptodome library is required for AES-encrypted PDFs.", {})]
    ELSE [table |-> table,
          response |-> Response(500, 0, "", "Error processing file: ...", {})]

\* The response of GET /documents/{document_id}.
get_document(table, document_id) ==
    LET document == Lookup(table, document_id)
    IN  IF document = None
        THEN Response(404, 0, "", "Document not found", {})
        ELSE Response(200, document_id, document[1].filename, "", {})

\* The response of GET /documents.
list_documents(table) ==
    Response(200, 0, "", "", {<<i, table[i].filename>> : i \in DOMAIN table})

\* A faulty delete: the row is never removed (no commit).
delete_document_uncommitted(table, document_id) ==
    LET document == Lookup(table, document_id)
    IN  IF document = None
        THEN [table |-> table,
              response |-> Response(404, 0, "", "Document not found", {})]
        ELSE [table |-> table,
              response |-> Response(200, 0, "", "Document deleted successfully", {})]

\* The new table and the response of DELETE /documents/{document_id}.
delete_document(table, document_id) ==
    LET document == Lookup(table, document_id)
    IN  IF document = None
        THEN [table |-> table,
              response |-> Response(404, 0, "", "Document not found", {})]
        ELSE [table |-> Remove(table, document_id),
              response |-> Response(200, 0, "", "Document deleted successfully", {})]

Served(op, document_id, filename, response) ==
    [op |-> op, document_id |-> document_id, filename |-> filename,
     response |-> response]

Upload ==
    /\ Len(oplog) < MaxOps
    /\ \E file \in Files :
          LET r == upload_document(documents, file)
          IN  /\ file.kind = "ok" => NextId(documents) <= MaxDocId
              /\ documents' = r.table
              /\ oplog' = Append(oplog, Served("upload", 0, file.filename, r.response))
    /\ UNCHANGED <<clock, limiter, websocket_rate_limiter, conns, qalog, wslog,
                   call, result>>

GetDocument ==
    /\ Len(oplog) < MaxOps
    /\ \E id \in DocIds :
          oplog' = Append(oplog, Served("get", id, "", get_document(documents, id)))
    /\ UNCHANGED <<documents, clock, limiter, websocket_rate_limiter, conns,
                   qalog, wslog, call, result>>

ListDocuments ==
    /\ Len(oplog) < MaxOps
    /\ oplog' = Append(oplog, Served("list", 0, "", list_documents(documents)))
    /\ UNCHANGED <<documents, clock, limiter, websocket_rate_limiter, conns,
                   qalog, wslog, call, result>>

DeleteDocument ==
    /\ Len(oplog) < MaxOps
    /\ \E id \in DocIds :
          LET r == delete_document(documents, id)
          IN  /\ documents' = r.table
              /\ oplog' = Append(oplog, Served("delete", id, "", r.response))
    /\ UNCHANGED <<clock, limiter, websocket_rate_limiter, conns, qalog, wslog,
                   call, result>>

\* The same two handlers serving other users while questions are asked; their
\* responses are not recorded.
OtherUpload ==
    /\ \E file \in Files :
          /\ file.kind = "ok"
          /\ NextId(documents) <= MaxDocId
          /\ documents' = upload_document(documents, file).table
    /\ UNCHANGED <<clock, limiter, websocket_rate_limiter, conns, oplog, qalog,
                   wslog, call, result>>

OtherDelete ==
    /\ \E id \in DOMAIN documents :
          documents' = delete_document(documents, id).table
    /\ UNCHANGED <<clock, limiter, websocket_rate_limiter, conns, oplog, qalog,
                   wslog, call, result>>

----------------------------------------------------------------------------
(* What a client has seen of a rate limiter: its requests of the last       *)
(* `seconds` seconds, oldest first, each with whether it was rejected.      *)
(* anchored says that no request preceded the oldest one by less than       *)
(* `seconds`, so these are all the requests of a window that it opened.     *)

NoRequests == [c \in Clients |-> [recent |-> <<>>, anchored |-> FALSE]]

Noted(seen, c, rejected) ==
    [seen EXCEPT ![c] = [recent |-> Append(@.recent, [time |-> clock,
                                                     rejected |-> rejected]),
                         anchored |-> IF @.recent = <<>> THEN TRUE ELSE @.anchored]]

Forgotten(seen, seconds, now) ==
    [c \in Clients |->
        LET kept == SelectSeq(seen[c].recent, LAMBDA e : e.time + seconds > now)
        IN  [recent |-> kept,
             anchored |-> seen[c].anchored /\ kept = seen[c].recent /\ kept # <<>>]]

\* How many requests are remembered, over the clients cs.
RECURSIVE Remembered(_, _)
Remembered(seen, cs) ==
    IF cs = {} THEN 0
    ELSE LET c == CHOOSE x \in cs : TRUE
         IN  Len(seen[c].recent) + Remembered(seen, cs \ {c})

\* A request of c accepted within the last `seconds` seconds.
AcceptedRecently(seen, c) == \E k \in 1..Len(seen[c].recent) : ~seen[c].recent[k].rejected

----------------------------------------------------------------------------
(* POST /question-answer, behind Depends(RateLimiter(times=5, seconds=60)) *)

Times == 5
Seconds == 60

\* The limiter's Redis key of a client: a counter that expires `Seconds`
\* after the request that created it.
LimiterCount(c) == IF limiter[c].expires > clock THEN limiter[c].count ELSE 0

\* A faulty limit: one request too many gets through.
RateLimitedLate(c) == LimiterCount(c) > Times

\* The request is refused with 429 once the live counter has reached `Times`.
RateLimited(c) == LimiterCount(c) > 0 /\ LimiterCount(c) + 1 > Times

LimiterCounted(c) ==
    IF LimiterCount(c) > 0
    THEN [limiter EXCEPT ![c].count = @ + 1]
    ELSE [limiter EXCEPT ![c] = [count |-> 1, expires |-> clock + Seconds]]

\* The handler proper: the status and the answer.
question_answer(table, document_id, question, outcome) ==
    LET document == Lookup(table, document_id)
    IN  IF document = None
        THEN [status |-> 404, detail |-> "Document not found", answer |-> <<>>]
        ELSE LET r == get_answer(Some(question), document[1].content, outcome)
             IN  IF r.raised
                 THEN [status |-> 500, detail |-> "Internal Server Error", answer |-> <<>>]
                 ELSE [status |-> 200, detail |-> "", answer |-> r.value]

NoCall ==
    [client |-> "", document_id |-> 0, question |-> <<>>, found |-> FALSE,
     status |-> 0, detail |-> "", answer |-> <<>>]

QuestionAnswer ==
    \E c \in Clients, id \in DocIds, q \in Questions, outcome \in ServiceOutcomes :
        LET limited == RateLimited(c)
            r == IF limited
                 THEN [status |-> 429, detail |-> "Too Many Requests", answer |-> <<>>]
                 ELSE question_answer(documents, id, q, outcome)
        IN  /\ Remembered(qalog.seen, Clients) < MaxCalls
            /\ limiter' = IF limited THEN limiter ELSE LimiterCounted(c)
            /\ qalog' = [seen |-> Noted(qalog.seen, c, r.status = 429),
                         last |-> [client |-> c, document_id |-> id, question |-> q,
                                   found |-> id \in DOMAIN documents,
                                   status |-> r.status, detail |-> r.detail,
                                   answer |-> r.answer]]
            /\ UNCHANGED <<documents, clock, websocket_rate_limiter, conns, oplog,
                           wslog, call, result>>

----------------------------------------------------------------------------
(* The /ws/question loop *)

WsSeconds == 60

RateLimitExceeded ==
    <<"R","a","t","e"," ","l","i","m","i","t"," ","e","x","c","e","e","d",
      "e","d","."," ","P","l","e","a","s","e"," ","w","a","i","t"," ","a",
      " ","m","o","m","e","n","t",".">>
DocumentNotFound ==
    <<"D","o","c","u","m","e","n","t"," ","n","o","t"," ","f","o","u","n",
      "d",".">>
NoDocumentContent ==
    <<"N","o"," ","d","o","c","u","m","e","n","t"," ","c","o","n","t","e",
      "n","t"," ","a","v","a","i","l","a","b","l","e"," ","f","o","r"," ",
      "c","o","n","t","e","x","t",".">>

\* A message: {"document_id": ..., "question": ...}; document_id is optional.
\* (A message without "question" hands None to get_answer, see above.)
Messages ==
    [document_id : {None} \cup {Some(i) : i \in DocIds},
     question : {Some(<<"a">>)}]

\* websocket_rate_limiter.get(client_id, 0)
LastRequestTime(dict, client_id) ==
    IF client_id \in DOMAIN dict THEN dict[client_id] ELSE 0

\* websocket_rate_limiter[client_id] = current_time
Stamped(dict, client_id, current_time) ==
    [c \in DOMAIN dict \cup {client_id} |->
        IF c = client_id THEN current_time ELSE dict[c]]

\* A faulty comparison: a message exactly 60 seconds later is still refused.
WsRateLimitedInclusive(dict, current_time, client_id) ==
    current_time - LastRequestTime(dict, client_id) <= WsSeconds

\* current_time - last_request_time < 60
WsRateLimited(dict, current_time, client_id) ==
    current_time - LastRequestTime(dict, client_id) < WsSeconds

\* A faulty branch: an unknown document_id clears the context.
ContentClearedOnMiss(document_content, msg, document) ==
    IF msg.document_id = None THEN document_content
    ELSE IF document # None THEN Some(document[1].content)
    ELSE None

\* A faulty branch: a message without document_id forgets the context.
ContentForgottenWithoutId(document_content, msg, document) ==
    IF msg.document_id = None THEN None
    ELSE IF document # None THEN Some(document[1].content)
    ELSE document_content

\* document_content after the "document_id" branch: the content of the named
\* document when there is one, what it was otherwise.
ContentAfterLookup(document_content, msg, document) ==
    IF msg.document_id # None /\ document # None
    THEN Some(document[1].content)
    ELSE document_content

\* Python's "not document_content"
Falsy(document_content) == document_content = None \/ document_content[1] = <<>>

\* One turn of the loop on a well-formed message: the dict, the connection's
\* document_content, the text sent back (none if the handler died), and the
\* question and context handed to get_answer (if it was called).
websocket_endpoint(table, dict, current_time, client_id, document_content, msg, outcome) ==
    IF WsRateLimited(dict, current_time, client_id)
    THEN [dict |-> dict, document_content |-> document_content,
          sent |-> Some(RateLimitExceeded), asked |-> None, alive |-> TRUE]
    ELSE LET stamped == Stamped(dict, client_id, current_time)
             document == IF msg.document_id = None THEN None
                         ELSE Lookup(table, msg.document_id[1])
         IN  IF msg.document_id # None /\ document = None
             THEN [dict |-> stamped,
                   document_content |-> ContentAfterLookup(document_content, msg, document),
                   sent |-> Some(DocumentNotFound), asked |-> None, alive |-> TRUE]
             ELSE LET content == ContentAfterLookup(document_content, msg, document)
                  IN  IF Falsy(content)
                      THEN [dict |-> stamped, document_content |-> content,
                            sent |-> Some(NoDocumentContent), asked |-> None,
                            alive |-> TRUE]
                      ELSE LET r == get_answer(msg.question, content[1], outcome)
                           IN  [dict |-> stamped, document_content |-> content,
                                sent |-> IF r.raised THEN None ELSE Some(r.value),
                                asked |-> Some(<<msg.question, content[1]>>),
                                alive |-> ~r.raised]

ClosedConn == [open |-> FALSE, client |-> "", document_content |-> None]

\* What has been seen of a connection: whether a message with a document_id
\* was ever received, and the content of the document named by the latest
\* message that carried the id of an existing document and was not refused.
NewSession == [ever_id |-> FALSE, loaded |-> None]

\* The latest message of all, on a connection still open: the content of the
\* document it named (if any), whether the connection had received a
\* document_id before, whether its client had no message accepted in the
\* preceding WsSeconds, and what the handler did with it.

NoMessage ==
    [conn |-> 0, msg |-> [document_id |-> None, question |-> None],
     found |-> None, had_id |-> FALSE, quiet |-> FALSE, loaded |-> None,
     sent |-> None, asked |-> None]

WsAccept ==
    \E k \in Conns, c \in Clients :
        /\ ~conns[k].open
        /\ conns' = [conns EXCEPT ![k] = [open |-> TRUE, client |-> c,
                                          document_content |-> None]]
        /\ UNCHANGED <<documents, clock, limiter, websocket_rate_limiter, oplog,
                       qalog, wslog, call, result>>

WsReceive ==
    \E k \in Conns, msg \in Messages, outcome \in ServiceOutcomes :
        LET c == conns[k].client
            r == websocket_endpoint(documents, websocket_rate_limiter, clock, c,
                                    conns[k].document_content, msg, outcome)
            rejected == r.sent = Some(RateLimitExceeded)
            found == IF msg.document_id = None THEN None
                     ELSE Lookup(documents, msg.document_id[1])
            s == wslog.session[k]
            loaded == IF found # None /\ ~rejected
                      THEN Some(found[1].content) ELSE s.loaded
        IN  /\ conns[k].open
            /\ Remembered(wslog.seen, Clients) < MaxMsgs
            /\ websocket_rate_limiter' = r.dict
            /\ conns' = [conns EXCEPT ![k] =
                            IF r.alive THEN [@ EXCEPT !.document_content = r.document_content]
                            ELSE ClosedConn]
            /\ wslog' =
                 [seen |-> Noted(wslog.seen, c, rejected),
                  session |-> [wslog.session EXCEPT ![k] =
                     IF ~r.alive THEN NewSession
                     ELSE [ever_id |-> s.ever_id \/ msg.document_id # None,
                           loaded |-> loaded]],
                  last |-> IF ~r.alive THEN NoMessage ELSE
                           [conn |-> k, msg |-> msg,
                            found |-> IF found = None THEN None
                                      ELSE Some(found[1].content),
                            had_id |-> s.ever_id,
                            quiet |-> ~AcceptedRecently(wslog.seen, c),
                            loaded |-> loaded,
                            sent |-> r.sent, asked |-> r.asked]]
            /\ UNCHANGED <<documents, clock, limiter, oplog, qalog, call, result>>

\* The client goes away: receive_text raises WebSocketDisconnect.
WsDisconnect ==
    \E k \in Conns :
        /\ conns[k].open
        /\ conns' = [conns EXCEPT ![k] = ClosedConn]
        /\ wslog' = [wslog EXCEPT !.session[k] = NewSession, !.last = NoMessage]
        /\ UNCHANGED <<documents, clock, limiter, websocket_rate_limiter, oplog,
                       qalog, call, result>>

\* A frame that is not JSON: json.loads raises before the rate limiter is
\* consulted, the loop ends and nothing is sent back.
WsMalformed ==
    \E k \in Conns :
        /\ conns[k].open
        /\ conns' = [conns EXCEPT ![k] = ClosedConn]
        /\ wslog' = [wslog EXCEPT !.session[k] = NewSession, !.last = NoMessage]
        /\ UNCHANGED <<documents, clock, limiter, websocket_rate_limiter, oplog,
                       qalog, call, result>>

----------------------------------------------------------------------------
(* Time *)

Tick ==
    /\ clock + TickStep <= StartClock + MaxElapsed
    /\ clock' = clock + TickStep
    /\ qalog' = [qalog EXCEPT !.seen = Forgotten(@, Seconds, clock')]
    /\ wslog' = [wslog EXCEPT !.seen = Forgotten(@, WsSeconds, clock')]
    /\ UNCHANGED <<documents, limiter, websocket_rate_limiter, conns, oplog,
                   call, result>>

----------------------------------------------------------------------------
(* The helpers applied on their own *)

Alphabet == {"a", "b", " "}
Letters == {"a", "b"}
Texts == StringsUpTo(Alphabet, MaxTextLen)
ChunkSizes == 0..MaxChunkSize
ShortStrings == StringsUpTo(Letters, MaxChunkLen)
ChunkLists == ListsUpTo(ShortStrings, MaxChunks)

AnswerTexts == {<<>>, <<"a">>, <<"\n">>, <<"a", "\n", "b">>}
BodyTexts == {<<>>, <<"o", "o", "p", "s">>}
Outcomes ==
    {ExceptionOutcome(<<"t", "i", "m", "e", "o", "u", "t">>)}
    \cup {ResponseOutcome(200, t, JsonAnswer(s)) : t \in {<<>>}, s \in AnswerTexts}
    \cup {ResponseOutcome(200, <<>>, j) :
             j \in {JsonNullAnswer, JsonNoAnswer, JsonList, JsonInvalid}}
    \cup {ResponseOutcome(st, t, JsonInvalid) : st \in {404, 503}, t \in BodyTexts}
AskedQuestions == {None, Some(<<>>), Some(<<"a">>)}
Contexts == {<<>>, <<"a">>, <<"a", " ", "b", "\n">>}

NoHelper == [fn |-> "none"]

ApplySplit ==
    /\ call = NoHelper
    /\ \E text \in Texts, chunk_size \in ChunkSizes :
          /\ call' = [fn |-> "split_into_chunks", text |-> text,
                      chunk_size |-> chunk_size]
          /\ result' = split_into_chunks(text, chunk_size)
    /\ UNCHANGED <<documents, clock, limiter, websocket_rate_limiter, conns,
                   oplog, qalog, wslog>>

ApplyFind ==
    /\ call = NoHelper
    /\ \E question \in ShortStrings, chunks \in ChunkLists :
          /\ call' = [fn |-> "find_relevant_chunk", question |-> question,
                      chunks |-> chunks]
          /\ result' = find_relevant_chunk(question, chunks)
    /\ UNCHANGED <<documents, clock, limiter, websocket_rate_limiter, conns,
                   oplog, qalog, wslog>>

ApplyGetAnswer ==
    /\ call = NoHelper
    /\ \E question \in AskedQuestions, context \in Contexts, outcome \in Outcomes :
          /\ call' = [fn |-> "get_answer", question |-> question,
                      context |-> context, outcome |-> outcome]
          /\ result' = get_answer(question, context, outcome)
    /\ UNCHANGED <<documents, clock, limiter, websocket_rate_limiter, conns,
                   oplog, qalog, wslog>>

----------------------------------------------------------------------------
(* Specifications *)

Init ==
    /\ documents = <<>>
    /\ clock = StartClock
    /\ limiter = [c \in Clients |-> [count |-> 0, expires |-> 0]]
    /\ websocket_rate_limiter = <<>>
    /\ conns = [k \in Conns |-> ClosedConn]
    /\ oplog = <<>>
    /\ qalog = [seen |-> NoRequests, last |-> NoCall]
    /\ wslog = [seen |-> NoRequests, session |-> [k \in Conns |-> NewSession],
                last |-> NoMessage]
    /\ call = NoHelper
    /\ result = <<>>

\* The whole service.
Next ==
    \/ Upload \/ GetDocument \/ ListDocuments \/ DeleteDocument
    \/ OtherUpload \/ OtherDelete
    \/ QuestionAnswer
    \/ WsAccept \/ WsReceive \/ WsDisconnect \/ WsMalformed
    \/ Tick
Spec == Init /\ [][Next]_vars

\* The document endpoints, every response recorded.
NextDocs == Upload \/ GetDocument \/ ListDocuments \/ DeleteDocument
SpecDocs == Init /\ [][NextDocs]_vars

\* POST /question-answer while documents come and go and time passes.
NextQA == QuestionAnswer \/ OtherUpload \/ OtherDelete \/ Tick
SpecQA == Init /\ [][NextQA]_vars

\* The WebSocket endpoint while documents come and go and time passes.
NextWS ==
    \/ WsAccept \/ WsReceive \/ WsDisconnect \/ WsMalformed
    \/ OtherUpload \/ OtherDelete \/ Tick
SpecWS == Init /\ [][NextWS]_vars

\* The text helpers, applied to every input within the bounds.
NextText == ApplySplit \/ ApplyFind \/ ApplyGetAnswer
SpecText == Init /\ [][NextText]_vars

----------------------------------------------------------------------------
(* Properties, checked under SpecQA *)

\* C1: of the calls a client makes to POST /question-answer within one
\* 60-second window (a window opened by a call that no call of the client
\* preceded by less than 60 seconds), the first 5 are not refused, and get 200
\* when the document exists, and the 6th is refused with 429.
C1_FiveThenRefused ==
    /\ \A c \in Clients :
          qalog.seen[c].anchored =>
              \A k \in 1..Len(qalog.seen[c].recent) :
                  qalog.seen[c].recent[k].rejected <=> k > 5
    /\ qalog.last.status # 0 =>
          \/ qalog.last.status = 429
          \/ qalog.last.status = IF qalog.last.found THEN 200 ELSE 404

C1_Witness ==
    \E c \in Clients :
        /\ qalog.seen[c].anchored
        /\ Len(qalog.seen[c].recent) = 6
        /\ \A k \in 1..5 : ~qalog.seen[c].recent[k].rejected
        /\ qalog.seen[c].recent[6].rejected
        /\ qalog.last.client = c
        /\ qalog.last.found
        /\ qalog.last.status = 429

\* C7: a call to POST /question-answer with an empty question, for a document
\* that exists and within the rate limit, is rejected with status 400 and no
\* answer is computed.
C7_EmptyQuestionRejected ==
    (qalog.last.status \notin {0, 404, 429} /\ qalog.last.question = <<>>) =>
        qalog.last.status = 400 /\ qalog.last.answer = <<>>

----------------------------------------------------------------------------
(* Properties, checked under SpecDocs *)

Created(i) == oplog[i].op = "upload" /\ oplog[i].response.status = 200
Deleted(i) == oplog[i].op = "delete" /\ oplog[i].response.status = 200
ReadOf(j, id) == oplog[j].op = "get" /\ oplog[j].document_id = id
ReadOrDeleteOf(j, id) == oplog[j].op \in {"get", "delete"} /\ oplog[j].document_id = id
NotFound(j) ==
    oplog[j].response.status = 404 /\ oplog[j].response.detail = "Document not found"

\* A read of an id that a create returned, with no delete of it in between,
\* returns the filename submitted at that creation.
ReadsBackFilename ==
    \A i, j \in 1..Len(oplog) :
        (/\ i < j
         /\ Created(i)
         /\ ReadOf(j, oplog[i].response.id)
         /\ \A k \in (i + 1)..(j - 1) :
               ~(Deleted(k) /\ oplog[k].document_id = oplog[i].response.id))
        => /\ oplog[j].response.status = 200
           /\ oplog[j].response.id = oplog[i].response.id
           /\ oplog[j].response.filename = oplog[i].filename

\* C2, as stated: reads return the filename of the creation while the id is
\* not deleted, and once a delete of an id has succeeded every later read or
\* delete of that id yields 404 "Document not found".
C2_NotFoundForEver ==
    /\ ReadsBackFilename
    /\ \A i, j \in 1..Len(oplog) :
          (i < j /\ Deleted(i) /\ ReadOrDeleteOf(j, oplog[i].document_id))
          => NotFound(j)

\* C2, amended: reads return the filename of the creation while the id is not
\* deleted, and after a successful delete of an id every read or delete of
\* that id yields 404 "Document not found" until a later create returns the
\* same id again.
C2_NotFoundUntilReused ==
    /\ ReadsBackFilename
    /\ \A i, j \in 1..Len(oplog) :
          (/\ i < j
           /\ Deleted(i)
           /\ ReadOrDeleteOf(j, oplog[i].document_id)
           /\ \A k \in (i + 1)..(j - 1) :
                 ~(Created(k) /\ oplog[k].response.id = oplog[i].document_id))
          => NotFound(j)

C2_Witness ==
    /\ Len(oplog) = 4
    /\ Created(1)
    /\ ReadOf(2, oplog[1].response.id) /\ oplog[2].response.filename = oplog[1].filename
    /\ Deleted(3) /\ oplog[3].document_id = oplog[1].response.id
    /\ ReadOf(4, oplog[1].response.id) /\ NotFound(4)

----------------------------------------------------------------------------
(* Properties, checked under SpecWS *)

Handled == wslog.last.conn # 0 /\ wslog.last.sent # None
Refused == wslog.last.sent = Some(RateLimitExceeded)
Answers(question, context) ==
    {Some(get_answer(question, context, outcome).value) : outcome \in ServiceOutcomes}

\* C3, as stated: a connection's document context is the content of the
\* document named by the latest message on it that carried a document_id,
\* and a later message without document_id is answered from that context.
C3_LatestNamed ==
    Handled =>
        LET context == conns[wslog.last.conn].document_content
        IN  /\ wslog.last.found # None => context = wslog.last.found
            /\ (wslog.last.msg.document_id = None /\ context # None)
               => wslog.last.asked = Some(<<wslog.last.msg.question, context[1]>>)

\* C3, amended: a connection's document context is the content of the document
\* named by the latest message on it that carried the document_id of an
\* existing document and was not refused by the rate limiter, and a later
\* message without document_id that is not refused is answered from that
\* context (when the content is not empty).
C3_LatestLoaded ==
    \A k \in Conns :
        conns[k].open =>
            /\ conns[k].document_content = wslog.session[k].loaded
            /\ (/\ Handled /\ wslog.last.conn = k
                /\ wslog.last.msg.document_id = None
                /\ ~Refused
                /\ ~Falsy(wslog.session[k].loaded))
               => /\ wslog.last.asked =
                        Some(<<wslog.last.msg.question, wslog.session[k].loaded[1]>>)
                  /\ wslog.last.sent \in
                        Answers(wslog.last.msg.question, wslog.session[k].loaded[1])

C3_Witness ==
    \E k \in Conns :
        /\ conns[k].open
        /\ Handled /\ wslog.last.conn = k
        /\ wslog.last.msg.document_id = None
        /\ wslog.last.had_id
        /\ wslog.last.asked # None
        /\ conns[k].document_content = Some(wslog.last.asked[1][2])

ProcessedOn(k) == wslog'.last.conn = k /\ clock' = clock /\ wslog' # wslog

C11_ContextIsSnapshot ==
    [][\A k \in Conns :
          (conns[k].open /\ conns'[k].open) =>
             /\ conns'[k].document_content # conns[k].document_content
                => /\ ProcessedOn(k)
                   /\ wslog'.last.sent # Some(RateLimitExceeded)
                   /\ wslog'.last.msg.document_id # None
                   /\ wslog'.last.found # None
                   /\ conns'[k].document_content = wslog'.last.found
             /\ (/\ ProcessedOn(k)
                 /\ wslog'.last.msg.document_id = None
                 /\ wslog'.last.asked # None)
                => /\ conns[k].document_content = wslog.session[k].loaded
                   /\ conns[k].document_content # None
                   /\ wslog'.last.asked =
                         Some(<<wslog'.last.msg.question,
                                conns[k].document_content[1]>>)]_vars

\* A message without document_id answered from a content that no stored
\* document has any more.
C11_Witness ==
    \E k \in Conns :
        /\ conns[k].open
        /\ Handled /\ wslog.last.conn = k
        /\ wslog.last.msg.document_id = None
        /\ wslog.last.asked # None
        /\ conns[k].document_content = Some(wslog.last.asked[1][2])
        /\ \A id \in DocIds :
              LET document == Lookup(documents, id)
              IN  document = None
                  \/ document[1].content # conns[k].document_content[1]

\* C5: of the WebSocket messages a client sends within one 60-second window
\* (a window opened by a message that none preceded by less than 60 seconds),
\* the first 5 are not answered with the rate-limit notice.
C5_FivePerWindow ==
    \A c \in Clients :
        wslog.seen[c].anchored =>
            \A k \in 1..Len(wslog.seen[c].recent) :
                k <= 5 => ~wslog.seen[c].recent[k].rejected

----------------------------------------------------------------------------
(* Properties, checked under SpecText *)

Words(text) == SelectSeq(SplitOnSpace(text), LAMBDA w : w # <<>>)

RECURSIVE WordsOfAll(_)
WordsOfAll(chunks) ==
    IF chunks = <<>> THEN <<>> ELSE Words(Head(chunks)) \o WordsOfAll(Tail(chunks))

\* C6: get_answer never raises; it returns the answer with newlines replaced
\* by spaces, "No answer found.", "Error: <status>, <body>" or
\* "An error occurred: <message>" according to what the inference API did.
C6_AlwaysAString ==
    call.fn = "get_answer" =>
        LET o == call.outcome
            failed(msg) == result.value = AnErrorOccurred \o msg
        IN  /\ ~result.raised
            /\ call.question = None => failed(NoneHasNoLen)
            /\ call.question # None =>
                  /\ o.kind = "exception" => failed(o.msg)
                  /\ (o.kind = "response" /\ o.status_code # 200) =>
                        result.value = ErrorPrefix \o IntToStr(o.status_code)
                                       \o CommaSpace \o o.text
                  /\ (o.kind = "response" /\ o.status_code = 200) =>
                        /\ (o.json.shape = "dict" /\ o.json.answer # None) =>
                              /\ Len(result.value) = Len(o.json.answer[1])
                              /\ \A i \in 1..Len(result.value) :
                                    result.value[i] =
                                        IF o.json.answer[1][i] = "\n" THEN " "
                                        ELSE o.json.answer[1][i]
                        /\ (o.json.shape = "dict" /\ ~o.json.has_answer) =>
                              result.value = NoAnswerFound
                        /\ (o.json.shape # "dict" \/ (o.json.has_answer /\ o.json.answer = None))
                              => \E msg \in {JsonDecodeError, ListHasNoGet, NoneHasNoReplace} :
                                    failed(msg)

C6_Witness ==
    /\ call.fn = "get_answer"
    /\ call.question # None
    /\ call.outcome.kind = "response"
    /\ call.outcome.status_code = 200
    /\ call.outcome.json.shape = "invalid"
    /\ ~result.raised
    /\ result.value = AnErrorOccurred \o JsonDecodeError

\* C8: the chunks of a text, joined with single spaces and split into words,
\* give the words of the text in their order, and so do the words of the
\* chunks taken one chunk after the other (no word is split across chunks).
C8_WordsPreserved ==
    call.fn = "split_into_chunks" =>
        /\ Words(JoinWithSpace(result)) = Words(call.text)
        /\ WordsOfAll(result) = Words(call.text)

C8_Witness ==
    /\ call.fn = "split_into_chunks"
    /\ Len(result) >= 3
    /\ Len(Words(call.text)) >= 3
    /\ WordsOfAll(result) = Words(call.text)

\* C9: split_into_chunks returns no chunk for the empty text and no empty
\* chunk for any text.
C9_NoEmptyChunk ==
    call.fn = "split_into_chunks" =>
        /\ call.text = <<>> => result = <<>>
        /\ \A i \in 1..Len(result) : result[i] # <<>>

\* C10: find_relevant_chunk returns "" for no chunks, and otherwise the
\* earliest chunk among those whose ratio to the question is the greatest.
C10_EarliestBest ==
    call.fn = "find_relevant_chunk" =>
        LET score(i) == ratio(call.question, call.chunks[i])
        IN  IF call.chunks = <<>> THEN result = <<>>
            ELSE \E i \in 1..Len(call.chunks) :
                    /\ result = call.chunks[i]
                    /\ \A j \in 1..Len(call.chunks) : ~RatioLess(score(i), score(j))
                    /\ \A j \in 1..(i - 1) : RatioLess(score(j), score(i))

C10_Witness ==
    /\ call.fn = "find_relevant_chunk"
    /\ Len(call.chunks) = 2
    /\ call.chunks[1] # call.chunks[2]
    /\ RatioEq(ratio(call.question, call.chunks[1]), ratio(call.question, call.chunks[2]))
    /\ ~RatioEq(ratio(call.question, call.chunks[1]), <<0, 1>>)
    /\ result = call.chunks[1]

====
